---------------------------- MODULE Spec2Model ----------------------------
(***************************************************************************)
(* external_naginator: puppetdb resources rendered as nagios configuration *)
(* files.  The repository holds three programs that evolved from one       *)
(* another; each is modelled from its own source:                          *)
(*   "external_naginator.py"  src/external_naginator.py  (NagiosType       *)
(*                            classes, CustomNagiosHostGroup)              *)
(*   "generate.py"            src/generate.py  (NagiosConfig.              *)
(*                            generate_nagios_cfg_type, NagiosHost)        *)
(*   "naginator.py"           src/external_naginator/naginator.py          *)
(*                            (module level functions)                     *)
(*                                                                         *)
(* Strings are TLA+ strings; a parameter value is a record                 *)
(*   [list |-> BOOLEAN, v |-> sequence of strings]                         *)
(* where a scalar is the one-element sequence holding it.  A block of an   *)
(* output file is a record                                                 *)
(*   [define |-> type, lines |-> the lines written one by one, in order,   *)
(*    params |-> the set of <<field, value>> lines written by the loop     *)
(*               over resource.parameters.items(),                         *)
(*    of     |-> the name of the resource or group the block was made for] *)
(* The order in which a dict yields its items is not part of the model:    *)
(* the parameter lines of a block are a set.  "of" is an annotation, not   *)
(* file content.  The column padding of "%-30s" is not modelled: a line is *)
(* the pair <<field, value>>.                                              *)
(***************************************************************************)
EXTENDS Integers, Sequences, FiniteSets, TLC

VARIABLES
    program,        \* which of the three programs runs
    nagios_type,    \* the type being rendered (self.nagios_type / nagios_define_type)
    nodefacts,      \* hostname -> (factname -> factvalue)
    pc,             \* position of the call being modelled
    raised,         \* "none", or the exception that left the call
    returned,       \* resources the type's query has yielded so far, in order
    scanned,        \* resources the Nagios_service query of generate_auto_servicegroups has yielded
    unique_list,    \* names seen by the running loop
    servicegroups,  \* service_description -> list of host names
    sg_written,     \* keys of servicegroups whose file has been written
    files,          \* path -> sequence of blocks (the output directory)
    opened,         \* every path opened for writing, in order (open(path, 'w'))
    handles,        \* paths of the file objects that are open, in order of opening
    config,         \* the hostgroup definition a derivation is run for
    nodes,          \* the nodes of the run, in the order the CMDB returned them
    members,        \* the nodes that satisfy the resource traits (CustomNagiosHostGroup)
    hostgroup,      \* <<group name, alias>> -> list of host names
    hg_i,           \* the next node of the grouping loop
    hg_written,     \* keys of hostgroup already written
    nagios_hosts,   \* names of the Nagios_host resources that are known nodes (generate.py)
    cmdb,           \* type -> the resources the CMDB returns for it, in order (a whole run)
    sections,       \* the hostgroup definitions of a whole run, in order
    type_i,         \* position in the registry of the type being rendered
    sec_i,          \* position in sections of the derivation being run
    phase,          \* "call", or the phase of a whole run
    fetches,        \* how often get_nodefacts was called
    failed_query    \* "", or the type whose resources query failed

\* the state of a render call, of a hostgroup derivation, of the file system
renderVars == <<returned, scanned, unique_list, servicegroups, sg_written>>

hgVars == <<config, nodes, members, hostgroup, hg_i, hg_written, nagios_hosts>>

fsVars == <<files, opened, handles>>

\* the state of the driver
runVars == <<cmdb, sections, type_i, sec_i, phase, fetches, failed_query>>

vars == <<program, nagios_type, nodefacts, pc, raised, renderVars, hgVars,
          fsVars, runVars>>

-----------------------------------------------------------------------------
(* Bounds *)

\* resources the CMDB yields during one call (both queries of a call together)
MaxRes == 3

\* elements of a list-valued parameter, and characters of one element
MaxLen == 3

MaxStr == 2

\* nodes the CMDB knows
MaxNodes == 2

\* types the CMDB has a resource of, in a whole run
MaxPopulated == 2

-----------------------------------------------------------------------------
(* Values and strings *)

Scalar(s) == [list |-> FALSE, v |-> <<s>>]
List(l) == [list |-> TRUE, v |-> l]

\* Python's "not param_value" for a string or a list
Falsy(pv) == IF pv.list THEN pv.v = <<>> ELSE pv.v[1] = ""

\* a join that ends every element, the last too, with the separator
RECURSIVE MutJoinTrailing(_, _)
MutJoinTrailing(sep, l) ==
    IF l = << >> THEN "" ELSE l[1] \o sep \o MutJoinTrailing(sep, Tail(l))

\* sep.join(l)
RECURSIVE join(_, _)
join(sep, l) ==
    IF l = <<>> THEN ""
    ELSE IF Len(l) = 1 THEN l[1]
    ELSE l[1] \o sep \o join(sep, Tail(l))

EmptyMap == [k \in {} |-> 0]

\* no hostgroup definition (a render call has none)
NoConfig == [section |-> "", fact_name |-> "", name |-> << >>, alias |-> << >>,
             traits |-> {}, options |-> {}]

\* dict membership and lookup
Has(d, k) == k \in DOMAIN d

Put(d, k, val) == [x \in (DOMAIN d) \cup {k} |-> IF x = k THEN val ELSE d[x]]

-----------------------------------------------------------------------------
(* Type registry *)

HostDirectives ==
    {"host_name", "alias", "display_name", "address", "parents", "hostgroups",
     "check_command", "initial_state", "max_check_attempts", "check_interval",
     "retry_interval", "active_checks_enabled", "passive_checks_enabled",
     "check_period", "obsess_over_host", "check_freshness",
     "freshness_threshold", "event_handler", "event_handler_enabled",
     "low_flap_threshold", "high_flap_threshold", "flap_detection_enabled",
     "flap_detection_options", "process_perf_data",
     "retain_status_information", "retain_nonstatus_information", "contacts",
     "contact_groups", "notification_interval", "first_notification_delay",
     "notification_period", "notification_options", "notifications_enabled",
     "stalking_options", "notes", "notes_url", "action_url", "icon_image",
     "icon_image_alt", "vrml_image", "statusmap_image", "2d_coords",
     "3d_coords", "use"}

ServiceDirectives ==
    {"host_name", "hostgroup_name", "service_description", "display_name",
     "servicegroups", "is_volatile", "check_command", "initial_state",
     "max_check_attempts", "check_interval", "retry_interval",
     "active_checks_enabled", "passive_checks_enabled", "check_period",
     "obsess_over_service", "check_freshness", "freshness_threshold",
     "event_handler", "event_handler_enabled", "low_flap_threshold",
     "high_flap_threshold", "flap_detection_enabled",
     "flap_detection_options", "process_perf_data",
     "retain_status_information", "retain_nonstatus_information",
     "notification_interval", "first_notification_delay",
     "notification_period", "notification_options", "notifications_enabled",
     "contacts", "contact_groups", "stalking_options", "notes", "notes_url",
     "action_url", "icon_image", "icon_image_alt", "use"}

HostGroupDirectives ==
    {"hostgroup_name", "alias", "members", "hostgroup_members", "notes",
     "notes_url", "action_url"}

ServiceGroupDirectives ==
    {"servicegroup_name", "alias", "members", "servicegroup_members", "notes",
     "notes_url", "action_url"}

CommandDirectives == {"command_name", "command_line"}

ContactDirectives ==
    {"contact_name", "alias", "contactgroups", "host_notifications_enabled",
     "service_notifications_enabled", "host_notification_period",
     "service_notification_period", "host_notification_options",
     "service_notification_options", "host_notification_commands",
     "service_notification_commands", "email", "pager", "addressx",
     "can_submit_commands", "retain_status_information",
     "retain_nonstatus_information"}

ContactGroupDirectives ==
    {"contactgroup_name", "alias", "members", "contactgroup_members"}

\* the types every program renders (NagiosType.__subclasses__() without the
\* Custom class; TYPES plus NagiosHost; TYPES)
TYPES ==
    {"host", "hostgroup", "hostescalation", "hostdependency", "hostextinfo",
     "service", "servicegroup", "serviceescalation", "servicedependency",
     "serviceextinfo", "contact", "contactgroup", "timeperiod", "command"}

\* the types that declare an allow-list
FilteredTypes ==
    {"host", "service", "hostgroup", "servicegroup", "command", "contact",
     "contactgroup"}

AllowList(t) ==
    CASE t = "host" -> HostDirectives
      [] t = "service" -> ServiceDirectives
      [] t = "hostgroup" -> HostGroupDirectives
      [] t = "servicegroup" -> ServiceGroupDirectives
      [] t = "command" -> CommandDirectives
      [] t = "contact" -> ContactDirectives
      [] t = "contactgroup" -> ContactGroupDirectives
      [] OTHER -> {}

\* The directives a render of type t filters by; {} stands for None ("if
\* self.directives and ..." treats both alike).  naginator.py has no
\* allow-lists at all.
directives(prog, t) ==
    IF prog = "naginator.py" THEN {} ELSE AllowList(t)

\* The parameter names the parameter loop always skips.
excluded(prog) ==
    IF prog = "naginator.py"
    THEN {"target", "require", "tag", "notify", "ensure"}
    ELSE {"target", "require", "tag", "notify", "ensure", "mode"}

\* generate.py renders the host type through its NagiosHost class and every
\* other type through NagiosConfig.generate_nagios_cfg_type.
UsesClass(prog, t) ==
    \/ prog = "external_naginator.py"
    \/ prog = "generate.py" /\ t = "host"

-----------------------------------------------------------------------------
(* Rendering one resource *)

\* 'workstation' in resource.tags and nagios_define_type == 'host': the
\* address parameter is set from the node's ipaddress_eth0 fact, else to
\* 127.0.0.1.  Only naginator.py does this.
enrich(prog, t, facts, r) ==
    IF prog = "naginator.py" /\ t = "host" /\ "workstation" \in r.tags
    THEN [r EXCEPT !.parameters =
            Put(r.parameters, "address",
                IF Has(facts, r.name) /\ Has(facts[r.name], "ipaddress_eth0")
                THEN Scalar(facts[r.name]["ipaddress_eth0"])
                ELSE Scalar("127.0.0.1"))]
    ELSE r

\* The name-field lines written before the parameters.
generate_name(prog, t, facts, r) ==
    IF UsesClass(prog, t)
    THEN CASE t = "host" ->
                IF \/ Has(facts, r.name)
                   \/ prog = "external_naginator.py" /\ Has(r.parameters, "use")
                THEN << <<"host_name", r.name>> >>
                ELSE << <<"name", r.name>> >>
           [] t = "service" ->
                IF ~Has(r.parameters, "host_name")
                THEN << <<"name", r.name>> >>
                ELSE << >>
           [] OTHER -> << <<t \o "_name", r.name>> >>
    ELSE IF prog = "generate.py"
    THEN CASE t \in {"command", "hostgroup", "servicegroup", "contact",
                     "contactgroup", "timeperiod"} ->
                << <<t \o "_name", r.name>> >>
           [] t = "service" ->
                IF ~Has(r.parameters, "host_name")
                THEN << <<"name", r.name>> >>
                ELSE << >>
           [] OTHER -> << >>
    ELSE CASE t = "command" -> << <<"command_name", r.name>> >>
           [] t = "host" -> << <<"host_name", r.name>> >>
           [] OTHER -> << >>

\* The value written for a parameter: a list becomes ",".join(list).
written_value(pv) == IF pv.list THEN join(",", pv.v) ELSE pv.v[1]

\* a parameter loop without the "not in self.directives" test
MutEmittedUnfiltered(prog, t, r, p) ==
    /\ ~(IF r.parameters[p].list THEN r.parameters[p].v = << >>
                                 ELSE r.parameters[p].v[1] = "")
    /\ p \notin {"target", "require", "tag", "notify", "ensure", "mode"}

\* Whether the parameter loop writes parameter p of resource r.
emitted(prog, t, r, p) ==
    /\ ~Falsy(r.parameters[p])
    /\ p \notin excluded(prog)
    /\ ~(directives(prog, t) # {} /\ p \notin directives(prog, t))

\* The lines the loop over resource.parameters.items() writes.
generate_parameters(prog, t, r) ==
    { <<p, written_value(r.parameters[p])>> :
        p \in {q \in DOMAIN r.parameters : emitted(prog, t, r, q)} }

\* "define <type> {", the name lines, the parameter lines, "}".
Block(prog, t, facts, r) ==
    LET e == enrich(prog, t, facts, r)
    IN  [define |-> t,
         lines  |-> generate_name(prog, t, facts, e),
         params |-> generate_parameters(prog, t, e),
         of     |-> r.name]

\* The service-group accumulation inside the render loop of
\* generate_nagios_cfg_type (not in the class based renderer).
Accumulates(prog, t, r) ==
    /\ ~UsesClass(prog, t)
    /\ t = "service"
    /\ prog = "generate.py" => Has(r.parameters, "host_name")

\* r.parameters['host_name'] / r.parameters['service_description'] on a
\* resource that lacks the key.
AccumulateRaises(r) ==
    \/ ~Has(r.parameters, "host_name")
    \/ ~Has(r.parameters, "service_description")

\* servicegroups[service_description].append(host_name) on a defaultdict(list)
Accumulate(sg, r) ==
    LET k == r.parameters["service_description"].v[1]
        h == r.parameters["host_name"].v[1]
    IN  Put(sg, k, (IF Has(sg, k) THEN sg[k] ELSE << >>) \o <<h>>)

-----------------------------------------------------------------------------
(* What the CMDB holds *)

Programs == {"external_naginator.py", "generate.py", "naginator.py"}

\* The types a modelled render call is made for: the three with a name rule
\* of their own, servicegroup (whose class also derives the service groups),
\* and two without an allow-list.
RenderTypes ==
    {"host", "service", "command", "servicegroup", "timeperiod",
     "hostextinfo"}

Names == {"web01", "web02"}

\* parameter mappings of the resources the CMDB may return
ParamMaps ==
    { EmptyMap,
      ("host_name" :> Scalar("web01")) @@ ("service_description" :> Scalar("http"))
        @@ ("mode" :> Scalar("0644")) @@ ("ensure" :> Scalar("present")),
      ("host_name" :> Scalar("web02")) @@ ("service_description" :> Scalar("http"))
        @@ ("command" :> Scalar("check_disk"))
        @@ ("command_line" :> Scalar("/bin/check.sh")) @@ ("parents" :> List(<< >>))
        @@ ("target" :> Scalar("/etc/nagios/nagios_command.cfg")),
      ("host_name" :> Scalar("web01")) @@ ("address" :> Scalar("10.0.0.5"))
        @@ ("use" :> Scalar("generic-host"))
        @@ ("hostgroups" :> List(<<"a", "b">>)) @@ ("alias" :> Scalar("")) }

Resource(n, tg, pm) == [name |-> n, tags |-> tg, parameters |-> pm]

\* the resources a query may yield
Resources ==
    { Resource(n, {}, pm) : n \in Names, pm \in ParamMaps }
    \cup
    { Resource(n, {"workstation"}, pm) : n \in Names,
        pm \in {q \in ParamMaps : q = EmptyMap \/ Has(q, "address")} }

\* the node facts of a run: no node; web01 without or with an interface
\* address (web02 is never a known node)
NodeFactsChoices ==
    { EmptyMap,
      "web01" :> ("operatingsystem" :> "Debian"),
      "web01" :> (("operatingsystem" :> "Debian") @@ ("ipaddress_eth0" :> "10.1.1.1")) }

-----------------------------------------------------------------------------
(* Files *)

\* NagiosType.file_name, and the tmp_file of generate_nagios_cfg_type
file_name(t) == "auto_" \o t \o ".cfg"

\* the tmp_file of a derived service group
servicegroup_file(k) == "auto_servicegroup_" \o k \o ".cfg"

\* open(path, 'w'): the file exists and is empty
Truncate(fs, path) == Put(fs, path, << >>)

\* f.write of one block
WriteBlock(fs, path, b) == Put(fs, path, fs[path] \o <<b>>)

\* the handle list without its first handle on path
RECURSIVE CloseHandle(_, _)
CloseHandle(hs, path) ==
    IF hs = << >> THEN << >>
    ELSE IF Head(hs) = path THEN Tail(hs)
    ELSE <<Head(hs)>> \o CloseHandle(Tail(hs), path)

-----------------------------------------------------------------------------
(* One render call: NagiosType.__init__ and generate (classes), or          *)
(* generate_nagios_cfg_type                                                *)

RenderInit ==
    /\ program \in Programs
    /\ nagios_type \in RenderTypes
    /\ nodefacts \in NodeFactsChoices
    /\ pc = "new"
    /\ raised = "none"
    /\ returned = << >>
    /\ scanned = << >>
    /\ unique_list = {}
    /\ servicegroups = EmptyMap
    /\ sg_written = {}
    /\ files = EmptyMap
    /\ opened = << >>
    /\ handles = << >>
    /\ config = NoConfig
    /\ nodes = << >>
    /\ members = << >>
    /\ hostgroup = EmptyMap
    /\ hg_i = 1
    /\ hg_written = {}
    /\ nagios_hosts = {}
    /\ cmdb = EmptyMap
    /\ sections = << >>
    /\ type_i = 0
    /\ sec_i = 0
    /\ phase = "call"
    /\ fetches = 0
    /\ failed_query = ""

\* NagiosType.__init__: "if not nodefacts: self.nodefacts =
\* self.get_nodefacts()" on a class that has no get_nodefacts, then
\* open(self.file_name(), 'w').  generate_nagios_cfg_type opens its file
\* first thing.
Construct ==
    /\ pc = "new"
    /\ IF UsesClass(program, nagios_type) /\ nodefacts = EmptyMap
       THEN /\ pc' = "raised"
            /\ raised' = "AttributeError"
            /\ UNCHANGED <<files, opened, handles>>
       ELSE /\ pc' = "open"
            /\ files' = Truncate(files, file_name(nagios_type))
            /\ opened' = Append(opened, file_name(nagios_type))
            /\ handles' = Append(handles, file_name(nagios_type))
            /\ UNCHANGED raised
    /\ UNCHANGED <<runVars, hgVars, program, nagios_type, nodefacts, returned, scanned,
                   unique_list, servicegroups, sg_written>>

\* "if r.name in unique_list: continue"
IsDuplicate(seen, r) == r.name \in seen

\* One iteration of the render loop, for the next resource the query yields.
Render(r) ==
    /\ pc = "open"
    /\ Len(returned) + Len(scanned) < MaxRes
    /\ returned' = Append(returned, r)
    /\ IF IsDuplicate(unique_list, r)
       THEN UNCHANGED <<pc, raised, unique_list, servicegroups, files>>
       ELSE /\ unique_list' = unique_list \cup {r.name}
            /\ IF Accumulates(program, nagios_type, r) /\ AccumulateRaises(r)
               THEN /\ pc' = "raised"
                    /\ raised' = "KeyError"
                    /\ UNCHANGED <<servicegroups, files>>
               ELSE /\ servicegroups' =
                          IF Accumulates(program, nagios_type, r)
                          THEN Accumulate(servicegroups, r)
                          ELSE servicegroups
                    /\ files' = WriteBlock(files, file_name(nagios_type),
                                  Block(program, nagios_type, nodefacts, r))
                    /\ UNCHANGED <<pc, raised>>
    /\ UNCHANGED <<runVars, hgVars, program, nagios_type, nodefacts, scanned, sg_written,
                   opened, handles>>

\* The query is exhausted: file.close().  NagiosServiceGroup.generate goes
\* on to generate_auto_servicegroups, generate_nagios_cfg_type to its loop
\* over servicegroups.items(); any other class is done.
Close ==
    /\ pc = "open"
    /\ handles' = CloseHandle(handles, file_name(nagios_type))
    /\ IF UsesClass(program, nagios_type)
       THEN IF program = "external_naginator.py" /\ nagios_type = "servicegroup"
            THEN pc' = "scan" /\ unique_list' = {}
            ELSE pc' = "done" /\ UNCHANGED unique_list
       ELSE pc' = "groups" /\ UNCHANGED unique_list
    /\ UNCHANGED <<runVars, hgVars, program, nagios_type, nodefacts, raised, returned, scanned,
                   servicegroups, sg_written, files, opened>>

\* One iteration of the first loop of generate_auto_servicegroups, over the
\* resources of the Nagios_service query.
Scan(r) ==
    /\ pc = "scan"
    /\ Len(returned) + Len(scanned) < MaxRes
    /\ scanned' = Append(scanned, r)
    /\ IF IsDuplicate(unique_list, r)
       THEN UNCHANGED <<pc, raised, unique_list, servicegroups>>
       ELSE /\ unique_list' = unique_list \cup {r.name}
            /\ IF ~Has(r.parameters, "host_name")
               THEN UNCHANGED <<pc, raised, servicegroups>>
               ELSE IF AccumulateRaises(r)
               THEN /\ pc' = "raised"
                    /\ raised' = "KeyError"
                    /\ UNCHANGED servicegroups
               ELSE /\ servicegroups' = Accumulate(servicegroups, r)
                    /\ UNCHANGED <<pc, raised>>
    /\ UNCHANGED <<runVars, hgVars, program, nagios_type, nodefacts, returned, sg_written,
                   files, opened, handles>>

\* The Nagios_service query is exhausted.
EndScan ==
    /\ pc = "scan"
    /\ pc' = "groups"
    /\ UNCHANGED <<runVars, hgVars, program, nagios_type, nodefacts, raised, returned, scanned,
                   unique_list, servicegroups, sg_written, files, opened,
                   handles>>

\* a deriver that sorts the hosts of a group: of two hosts, web01 first
MutSortedMembers(k, host_list) ==
    IF Len(host_list) = 2 /\ host_list[1] = "web02" /\ host_list[2] = "web01"
    THEN <<"web01" \o "," \o k, "web02" \o "," \o k>>
    ELSE [i \in 1..Len(host_list) |-> host_list[i] \o "," \o k]

\* members: "%s,%s" % (host, servicegroup_name) for every host of the list
servicegroup_members(k, host_list) ==
    [i \in 1..Len(host_list) |-> host_list[i] \o "," \o k]

\* the block of one derived service group
servicegroup_block(k, host_list) ==
    [define |-> "servicegroup",
     lines  |-> << <<"servicegroup_name", k>>,
                   <<"alias", k>>,
                   <<"members", join(",", servicegroup_members(k, host_list))>> >>,
     params |-> {},
     of     |-> k]

\* One iteration of "for servicegroup_name, host_list in
\* servicegroups.items()": open, write, close the group's file.
WriteServiceGroup(k) ==
    /\ pc = "groups"
    /\ k \in DOMAIN servicegroups
    /\ k \notin sg_written
    /\ files' = WriteBlock(Truncate(files, servicegroup_file(k)),
                           servicegroup_file(k),
                           servicegroup_block(k, servicegroups[k]))
    /\ opened' = Append(opened, servicegroup_file(k))
    /\ sg_written' = sg_written \cup {k}
    /\ UNCHANGED <<runVars, hgVars, program, nagios_type, nodefacts, pc, raised, returned,
                   scanned, unique_list, servicegroups, handles>>

\* The loop over servicegroups.items() is over: the call returns.
Return ==
    /\ pc = "groups"
    /\ sg_written = DOMAIN servicegroups
    /\ pc' = "done"
    /\ UNCHANGED <<runVars, hgVars, program, nagios_type, nodefacts, raised, returned, scanned,
                   unique_list, servicegroups, sg_written, files, opened,
                   handles>>

RenderNext ==
    \/ Construct
    \/ \E r \in Resources : Render(r)
    \/ Close
    \/ \E r \in Resources : Scan(r)
    \/ EndScan
    \/ \E k \in DOMAIN servicegroups : WriteServiceGroup(k)
    \/ Return

Init == RenderInit

Next == RenderNext

Spec == Init /\ [][Next]_vars

-----------------------------------------------------------------------------
(* Properties of a render call *)

\* the resources of a sequence whose name no earlier resource of it has
RECURSIVE FirstOccurrences(_)
FirstOccurrences(rs) ==
    IF rs = << >> THEN << >>
    ELSE LET init == SubSeq(rs, 1, Len(rs) - 1)
             last == rs[Len(rs)]
         IN  IF \E i \in 1..Len(init) : init[i].name = last.name
             THEN FirstOccurrences(init)
             ELSE Append(FirstOccurrences(init), last)

\* the type's output file, once it has been opened
TypeFile == files[file_name(nagios_type)]

TypeFileExists == file_name(nagios_type) \in DOMAIN files

\* the render loop is over: it ran to the end of the query or an exception
\* left it
RenderOver == pc \in {"scan", "groups", "done"} \/ raised = "KeyError"

\* the field names of a block
NameFields(b) == { b.lines[j][1] : j \in DOMAIN b.lines }

ParamFields(b) == { l[1] : l \in b.params }

\* C1: once the render loop of a type is over, the blocks of the type's
\* file are, in return order, the blocks of the first occurrence of each
\* distinct resource name the query returned: one block per name, the
\* block of the first resource with that name, and the resources after a
\* duplicate have a block too.
C1_BlocksAreFirstOccurrences ==
    (RenderOver /\ TypeFileExists) =>
        LET fo == FirstOccurrences(returned)
        IN  /\ Len(TypeFile) = Len(fo)
            /\ \A i \in 1..Len(fo) :
                 TypeFile[i] = Block(program, nagios_type, nodefacts, fo[i])

\* the running program declares an allow-list for the type being rendered
DeclaresAllowList == directives(program, nagios_type) # {}

GlobalExclusions == {"target", "require", "tag", "notify", "ensure", "mode"}

\* C3: no block of any type, with or without an allow-list, has a parameter
\* line whose field is in the global exclusion set.
C3_NoExcludedField ==
    TypeFileExists =>
        \A i \in 1..Len(TypeFile) :
            ParamFields(TypeFile[i]) \cap GlobalExclusions = {}

\* a workstation whose node has no known interface address
NoKnownAddress(r) ==
    ~(Has(nodefacts, r.name) /\ Has(nodefacts[r.name], "ipaddress_eth0"))

\* C5: in a render of the host type, the block of every rendered resource
\* tagged "workstation" whose node has no known interface address has the
\* address line 127.0.0.1.
C5_WorkstationLoopback ==
    (nagios_type = "host" /\ TypeFileExists) =>
        LET fo == FirstOccurrences(returned)
        IN  \A i \in 1..Len(TypeFile) :
              ("workstation" \in fo[i].tags /\ NoKnownAddress(fo[i])) =>
                  /\ <<"address", "127.0.0.1">> \in TypeFile[i].params
                  /\ \A l \in TypeFile[i].params :
                        l[1] = "address" => l[2] = "127.0.0.1"

\* C8: every command block has the command_name line with the resource name
\* and no field named "command".
C8_CommandNameNoCommand ==
    (nagios_type = "command" /\ TypeFileExists) =>
        \A i \in 1..Len(TypeFile) :
            /\ \E j \in DOMAIN TypeFile[i].lines :
                 TypeFile[i].lines[j] = <<"command_name", TypeFile[i].of>>
            /\ "command" \notin NameFields(TypeFile[i]) \cup ParamFields(TypeFile[i])

\* C11 as stated: in a render of the host type, the name-field line of every
\* block is the one line host_name when the resource name is a known node or
\* the resource has a use parameter, and the one line name otherwise.
C11_HostNameRule ==
    (nagios_type = "host" /\ TypeFileExists) =>
        LET fo == FirstOccurrences(returned)
        IN  \A i \in 1..Len(TypeFile) :
              TypeFile[i].lines =
                 IF Has(nodefacts, fo[i].name) \/ Has(fo[i].parameters, "use")
                 THEN << <<"host_name", fo[i].name>> >>
                 ELSE << <<"name", fo[i].name>> >>

\* the types the programs have no name rule of their own for
GenericNameTypes ==
    {"hostescalation", "hostdependency", "hostextinfo",
     "serviceescalation", "servicedependency", "serviceextinfo"}

\* C12 as stated: every block of a type without a name rule of its own has
\* the generic name line carrying the resource name as its name-field line,
\* and no <type>_name field.
C12_GenericNameField ==
    (nagios_type \in GenericNameTypes /\ TypeFileExists) =>
        \A i \in 1..Len(TypeFile) :
            /\ TypeFile[i].lines = << <<"name", TypeFile[i].of>> >>
            /\ (nagios_type \o "_name") \notin NameFields(TypeFile[i])

-----------------------------------------------------------------------------
(* Properties of the service-group deriver *)

\* the call derives service groups: generate_nagios_cfg_type after its
\* render loop, NagiosServiceGroup.generate after the servicegroup render
DerivesServiceGroups ==
    \/ ~UsesClass(program, nagios_type)
    \/ program = "external_naginator.py" /\ nagios_type = "servicegroup"

\* the service resources the deriver's loop went through, in return order
ServiceResources ==
    IF UsesClass(program, nagios_type) THEN scanned
    ELSE IF nagios_type = "service" THEN returned
    ELSE << >>

\* the host names of the resources of rs with service_description k, in order
RECURSIVE HostsOf(_, _)
HostsOf(rs, k) ==
    IF rs = << >> THEN << >>
    ELSE LET r == Head(rs)
         IN  (IF /\ Has(r.parameters, "host_name")
                 /\ Has(r.parameters, "service_description")
                 /\ r.parameters["service_description"].v[1] = k
              THEN <<r.parameters["host_name"].v[1]>>
              ELSE << >>) \o HostsOf(Tail(rs), k)

\* how often path was opened for writing
TimesOpened(path) == Cardinality({i \in DOMAIN opened : opened[i] = path})

\* C7: when the deriver has finished, every key k of the index has exactly
\* one file auto_servicegroup_<k>.cfg, opened once, holding one servicegroup
\* block whose name and alias are k and whose members are "host,k" for every
\* host appended under k, comma-joined in the order of appending, which is
\* the return order of the service resources.
C7_OneFilePerServiceGroup ==
    (pc = "done" /\ DerivesServiceGroups) =>
        \A k \in DOMAIN servicegroups :
            LET hosts == HostsOf(FirstOccurrences(ServiceResources), k)
                path == servicegroup_file(k)
            IN  /\ servicegroups[k] = hosts
                /\ path \in DOMAIN files
                /\ TimesOpened(path) = 1
                /\ Len(files[path]) = 1
                /\ files[path][1].define = "servicegroup"
                /\ files[path][1].params = {}
                /\ files[path][1].lines =
                     << <<"servicegroup_name", k>>,
                        <<"alias", k>>,
                        <<"members",
                          join(",", [i \in 1..Len(hosts) |-> hosts[i] \o "," \o k])>> >>

\* C7's case: a finished deriver whose group "http" has web02 before web01,
\* the order the CMDB returned their services in.
C7_Witness ==
    /\ pc = "done"
    /\ DerivesServiceGroups
    /\ "http" \in DOMAIN servicegroups
    /\ servicegroups["http"] = <<"web02", "web01">>
    /\ servicegroup_file("http") \in DOMAIN files
    /\ files[servicegroup_file("http")][1].lines[3] =
         <<"members", "web02,http,web01,http">>

\* the service_description values the index may have as keys
ServiceKeys ==
    { r.parameters["service_description"].v[1] :
        r \in { x \in Resources : Has(x.parameters, "service_description") } }

\* the hosts the index holds under k
IndexOf(k) == IF Has(servicegroups, k) THEN servicegroups[k] ELSE << >>

\* C20 as stated: while service resources are processed, the index holds
\* under every service_description exactly the host_name of each
\* first-occurrence resource that has a host_name, once, in return order,
\* and a resource without host_name appends nothing and is passed over: it
\* does not end the processing.
C20_IndexAccumulation ==
    DerivesServiceGroups =>
        /\ \A k \in ServiceKeys :
              IndexOf(k) = HostsOf(FirstOccurrences(ServiceResources), k)
        /\ DOMAIN servicegroups \subseteq ServiceKeys
        /\ (raised = "KeyError" /\ ServiceResources # << >>) =>
              Has(ServiceResources[Len(ServiceResources)].parameters, "host_name")

-----------------------------------------------------------------------------
(* The parameter loop on list values: one host resource whose hostgroups   *)
(* parameter is a list drawn from all short lists of short strings         *)

Alphabet == {"a", ","}

RECURSIVE Strings(_)
Strings(n) ==
    IF n = 0 THEN {""}
    ELSE Strings(n - 1) \cup { s \o c : s \in Strings(n - 1), c \in Alphabet }

RECURSIVE ListsOf(_, _)
ListsOf(S, n) ==
    IF n = 0 THEN { << >> }
    ELSE ListsOf(S, n - 1) \cup
         { Append(l, e) : l \in ListsOf(S, n - 1), e \in S }

ListResources ==
    { Resource("web01", {}, "hostgroups" :> List(l)) :
        l \in ListsOf(Strings(MaxStr), MaxLen) }

ParamsInit ==
    /\ RenderInit
    /\ nagios_type = "host"
    /\ nodefacts # EmptyMap

ParamsNext ==
    \/ Construct
    \/ (returned = << >> /\ \E r \in ListResources : Render(r))
    \/ Close

SpecParams == ParamsInit /\ [][ParamsNext]_vars

\* Python's s.split(sep) for a one-character separator
RECURSIVE split(_, _)
split(s, sep) ==
    IF \E i \in 1..Len(s) : SubSeq(s, i, i) = sep
    THEN LET i == CHOOSE j \in 1..Len(s) :
                    /\ SubSeq(s, j, j) = sep
                    /\ \A h \in 1..(j - 1) : SubSeq(s, h, h) # sep
         IN  <<SubSeq(s, 1, i - 1)>> \o split(SubSeq(s, i + 1, Len(s)), sep)
    ELSE <<s>>

HasComma(s) == \E i \in 1..Len(s) : SubSeq(s, i, i) = ","

\* where element i of l starts in the joined value, less one
RECURSIVE Offset(_, _)
Offset(l, i) == IF i = 1 THEN 0 ELSE Offset(l, i - 1) + Len(l[i - 1]) + 1

\* v is the elements of l in their order, a single comma between neighbours
InOrderSingleCommas(v, l) ==
    /\ Len(v) = Offset(l, Len(l)) + Len(l[Len(l)])
    /\ \A i \in 1..Len(l) :
         /\ SubSeq(v, Offset(l, i) + 1, Offset(l, i) + Len(l[i])) = l[i]
         /\ i > 1 => SubSeq(v, Offset(l, i), Offset(l, i)) = ","

NoOuterComma(v) ==
    v # "" => /\ SubSeq(v, 1, 1) # ","
              /\ SubSeq(v, Len(v), Len(v)) # ","

\* the values the block made for resource r shows for parameter p
WrittenFor(b, p) == { l[2] : l \in {x \in b.params : x[1] = p} }

\* C4 as claimed: an empty list is not written; the value written for any
\* other list is its elements in order with single commas between them, has
\* no leading or trailing comma, and split on commas is the list again.
C4_ListRoundTrips ==
    (TypeFileExists /\ Len(TypeFile) = 1 /\ Len(returned) = 1) =>
        \A p \in DOMAIN returned[1].parameters :
            LET pv == returned[1].parameters[p]
            IN  pv.list =>
                  IF pv.v = << >>
                  THEN WrittenFor(TypeFile[1], p) = {}
                  ELSE \A v \in WrittenFor(TypeFile[1], p) :
                         /\ InOrderSingleCommas(v, pv.v)
                         /\ NoOuterComma(v)
                         /\ split(v, ",") = pv.v

\* C4 as amended: an empty list is not written; the value written for any
\* other list is its elements in order with single commas between them;
\* when no element contains a comma, the value split on commas is the list
\* again, and when moreover no element is empty the value has no leading
\* or trailing comma.
C4_ListJoined ==
    (TypeFileExists /\ Len(TypeFile) = 1 /\ Len(returned) = 1) =>
        \A p \in DOMAIN returned[1].parameters :
            LET pv == returned[1].parameters[p]
                plain == \A i \in 1..Len(pv.v) : ~HasComma(pv.v[i])
                full == \A i \in 1..Len(pv.v) : pv.v[i] # ""
            IN  pv.list =>
                  IF pv.v = << >>
                  THEN WrittenFor(TypeFile[1], p) = {}
                  ELSE /\ Cardinality(WrittenFor(TypeFile[1], p)) = 1
                       /\ \A v \in WrittenFor(TypeFile[1], p) :
                            /\ InOrderSingleCommas(v, pv.v)
                            /\ plain => split(v, ",") = pv.v
                            /\ (plain /\ full) => NoOuterComma(v)

\* C4's case: the three-element list a, aa, a was written as "a,aa,a".
C4_Witness ==
    /\ pc = "done"
    /\ Len(returned) = 1
    /\ Has(returned[1].parameters, "hostgroups")
    /\ returned[1].parameters["hostgroups"] = List(<<"a", "aa", "a">>)
    /\ TypeFile[1].params = { <<"hostgroups", "a,aa,a">> }

-----------------------------------------------------------------------------
(* Hostgroup derivation: what is configured and what the CMDB knows *)

\* A template is a sequence of parts, literal text or a {fact} placeholder.
Lit(x) == [fact |-> FALSE, s |-> x]

Fact(f) == [fact |-> TRUE, s |-> f]

\* the template as written in the configuration file
RECURSIVE TemplateText(_)
TemplateText(tpl) ==
    IF tpl = << >> THEN ""
    ELSE (IF Head(tpl).fact THEN "{" \o Head(tpl).s \o "}" ELSE Head(tpl).s)
         \o TemplateText(Tail(tpl))

\* template.format(**facts) raises KeyError: a placeholder names no fact
FormatRaises(tpl, facts) ==
    \E i \in 1..Len(tpl) : tpl[i].fact /\ ~Has(facts, tpl[i].s)

\* the text of a template, each placeholder replaced by the fact it names and
\* by a default where there is no such fact
RECURSIVE Substitute(_, _, _)
Substitute(tpl, facts, default) ==
    IF tpl = << >> THEN ""
    ELSE (IF ~Head(tpl).fact THEN Head(tpl).s
          ELSE IF Has(facts, Head(tpl).s) THEN facts[Head(tpl).s]
          ELSE default)
         \o Substitute(Tail(tpl), facts, default)

\* a formatter that puts "unknown" where the fact is missing
MutFormatDefault(tpl, facts) ==
    [raises |-> FALSE, s |-> Substitute(tpl, facts, "unknown")]

\* template.format(**facts): the text, or KeyError
format(tpl, facts) ==
    IF FormatRaises(tpl, facts)
    THEN [raises |-> TRUE, s |-> ""]
    ELSE [raises |-> FALSE, s |-> Substitute(tpl, facts, "")]

NodeNameList == <<"web01", "web02", "web03", "web04">>

\* the facts one node may have: an operating system or none, a location or
\* none
FactMaps ==
    { [f \in {"operatingsystem" : x \in {o} \ {""}} \cup
             {"location" : x \in {l} \ {""}} |->
         IF f = "operatingsystem" THEN o ELSE l] :
        o \in {"", "Debian", "RedHat"}, l \in {"", "syd"} }

\* the (resource type, resource title) pairs a definition may require
TraitPairs == { <<"class", "apache">>, <<"package", "nginx">> }

NameTemplates == { <<Fact("operatingsystem")>>, <<Lit("all")>> }

AliasTemplates == { <<Fact("operatingsystem")>>, <<Fact("location")>> }

\* The definitions a program can be given.  external_naginator.py: section
\* "hostgroup_<name template>", options fact_template and name (the alias
\* template), either of which the file may lack, the other options being
\* required resources.  generate.py: a section and its
\* fact_template, used for name and alias.  naginator.py: a fact name.
Configs(prog) ==
    IF prog = "external_naginator.py"
    THEN { [section |-> "hostgroup_" \o TemplateText(nt), fact_name |-> "",
            name |-> nt, alias |-> at, traits |-> tr, options |-> op] :
             nt \in NameTemplates, at \in AliasTemplates,
             tr \in {{}, { <<"class", "apache">> }, TraitPairs},
             op \in {{"fact_template", "name"}, {"name"}, {"fact_template"}} }
    ELSE IF prog = "generate.py"
    THEN { [section |-> "hostgroup_" \o TemplateText(nt), fact_name |-> "",
            name |-> nt, alias |-> nt, traits |-> {},
            options |-> {"fact_template"}] : nt \in NameTemplates }
    ELSE { [section |-> "", fact_name |-> f, name |-> <<Fact(f)>>,
            alias |-> <<Fact(f)>>, traits |-> {}, options |-> {}] :
             f \in {"operatingsystem", "location"} }

\* what one node is: its facts and the resources it has (node.resources is
\* asked only by CustomNagiosHostGroup)
NodeKinds(prog) ==
    { [facts |-> fm, resources |-> rs] :
        fm \in FactMaps,
        rs \in IF prog = "external_naginator.py" THEN SUBSET TraitPairs ELSE {{}} }

-----------------------------------------------------------------------------
(* Hostgroup derivation: CustomNagiosHostGroup (external_naginator.py),     *)
(* NagiosConfig.generate_hostgroup (generate.py), generate_hostgroup        *)
(* (naginator.py)                                                          *)

\* The two class-based programs construct a NagiosType before they derive any
\* hostgroup, and that needs a node; naginator.py goes on without one.
MinNodes(prog) == IF prog = "naginator.py" THEN 0 ELSE 1

\* nodes and nodefacts as get_nodefacts builds them, one entry per node
HgInit ==
    /\ program \in Programs
    /\ config \in Configs(program)
    /\ \E n \in MinNodes(program)..MaxNodes : \E kinds \in [1..n -> NodeKinds(program)] :
          /\ nodes = [i \in 1..n |-> [name |-> NodeNameList[i],
                                      resources |-> kinds[i].resources]]
          /\ nodefacts = [h \in {NodeNameList[i] : i \in 1..n} |->
                            kinds[CHOOSE i \in 1..n : NodeNameList[i] = h].facts]
    /\ nagios_type = IF program = "external_naginator.py"
                     THEN config.section ELSE "hostgroup"
    /\ pc = "new"
    /\ raised = "none"
    /\ returned = << >>
    /\ scanned = << >>
    /\ unique_list = {}
    /\ servicegroups = EmptyMap
    /\ sg_written = {}
    /\ files = EmptyMap
    /\ opened = << >>
    /\ handles = << >>
    /\ members = << >>
    /\ hostgroup = EmptyMap
    /\ hg_i = 1
    /\ hg_written = {}
    /\ nagios_hosts = {}
    /\ cmdb = EmptyMap
    /\ sections = << >>
    /\ type_i = 0
    /\ sec_i = 0
    /\ phase = "call"
    /\ fetches = 0
    /\ failed_query = ""

\* the file generate_hostgroup opens before it groups anything
hostgroup_file(prog, cfg) ==
    IF prog = "generate.py"
    THEN "auto_hostgroup_" \o cfg.section \o ".cfg"
    ELSE "auto_hostgroup_" \o cfg.fact_name \o ".cfg"

\* the file CustomNagiosHostGroup.generate opens for one group
group_file(name) == "auto_hostgroup_" \o name \o ".cfg"

\* CustomNagiosHostGroup.__init__: nagios_type is the section name, then
\* NagiosType.__init__ (which opens auto_<section>.cfg).
CustomConstruct ==
    /\ pc = "new"
    /\ program = "external_naginator.py"
    /\ IF nodefacts = EmptyMap
       THEN /\ pc' = "raised"
            /\ raised' = "AttributeError"
            /\ UNCHANGED fsVars
       ELSE /\ pc' = "select"
            /\ files' = Truncate(files, file_name(nagios_type))
            /\ opened' = Append(opened, file_name(nagios_type))
            /\ handles' = Append(handles, file_name(nagios_type))
            /\ UNCHANGED raised
    /\ UNCHANGED <<runVars, program, nagios_type, nodefacts, renderVars, hgVars>>

\* generate_hostgroup of generate.py and of naginator.py: open(tmp_file, 'w')
OpenHostgroupFile ==
    /\ pc = "new"
    /\ program # "external_naginator.py"
    /\ pc' = "grouping"
    /\ files' = Truncate(files, hostgroup_file(program, config))
    /\ opened' = Append(opened, hostgroup_file(program, config))
    /\ handles' = Append(handles, hostgroup_file(program, config))
    /\ UNCHANGED <<runVars, program, nagios_type, nodefacts, raised, renderVars, hgVars>>

\* "for type_, title in traits.items(): if not len(list(node.resources(
\* type_, title))) > 0: break / else: members.append(node)"
\* a member test that is content with one matching trait
MutSatisfiesAny(node, traits) ==
    traits = {} \/ \E t \in traits : t \in node.resources

satisfies(node, traits) == \A t \in traits : t \in node.resources

RECURSIVE select_members(_, _)
select_members(ns, traits) ==
    IF ns = << >> THEN << >>
    ELSE (IF satisfies(Head(ns), traits) THEN <<Head(ns)>> ELSE << >>)
         \o select_members(Tail(ns), traits)

\* The start of CustomNagiosHostGroup.generate: traits.pop('fact_template')
\* and traits.pop('name') raise KeyError for an option the section lacks;
\* then the first loop gathers the members.
SelectMembers ==
    /\ pc = "select"
    /\ IF {"fact_template", "name"} \subseteq config.options
       THEN /\ members' = select_members(nodes, config.traits)
            /\ pc' = "grouping"
            /\ UNCHANGED raised
       ELSE /\ pc' = "raised"
            /\ raised' = "KeyError"
            /\ UNCHANGED members
    /\ UNCHANGED <<runVars, program, nagios_type, nodefacts, renderVars, fsVars,
                   config, nodes, hostgroup, hg_i, hg_written, nagios_hosts>>

\* "for node in members or self.nodes"; the other two programs go through
\* nodefacts.items()
grouped(prog, ms, ns) ==
    IF prog = "external_naginator.py" /\ ms # << >> THEN ms ELSE ns

\* the key a node is grouped under
group_key(prog, cfg, facts) ==
    IF prog = "naginator.py"
    THEN <<facts[cfg.fact_name], facts[cfg.fact_name]>>
    ELSE <<format(cfg.name, facts).s, format(cfg.alias, facts).s>>

\* facts[fact_name], or one of the two format calls, raises KeyError
key_raises(prog, cfg, facts) ==
    IF prog = "naginator.py"
    THEN ~Has(facts, cfg.fact_name)
    ELSE format(cfg.name, facts).raises \/ format(cfg.alias, facts).raises

\* One iteration of the grouping loop.
GroupNode ==
    /\ pc = "grouping"
    /\ hg_i <= Len(grouped(program, members, nodes))
    /\ LET node == grouped(program, members, nodes)[hg_i]
           facts == nodefacts[node.name]
       IN  IF key_raises(program, config, facts)
           THEN /\ pc' = "raised"
                /\ raised' = "KeyError"
                /\ UNCHANGED <<hostgroup, hg_i>>
           ELSE LET k == group_key(program, config, facts)
                IN  /\ hostgroup' = Put(hostgroup, k,
                          (IF Has(hostgroup, k) THEN hostgroup[k] ELSE << >>)
                            \o <<node.name>>)
                    /\ hg_i' = hg_i + 1
                    /\ UNCHANGED <<pc, raised>>
    /\ UNCHANGED <<runVars, program, nagios_type, nodefacts, renderVars, fsVars,
                   config, nodes, members, hg_written, nagios_hosts>>

\* The grouping loop is over.  CustomNagiosHostGroup.generate returns when
\* there is no group ("if not hostgroup.items(): return"); generate.py goes
\* on to query the Nagios_host resources.
EndGrouping ==
    /\ pc = "grouping"
    /\ hg_i > Len(grouped(program, members, nodes))
    /\ pc' = IF program = "generate.py" THEN "query"
             ELSE IF program = "external_naginator.py" /\ hostgroup = EmptyMap
             THEN "done"
             ELSE "writing"
    /\ UNCHANGED <<runVars, program, nagios_type, nodefacts, raised, renderVars, fsVars,
                   hgVars>>

\* generate.py: nagios_hosts = the names of the Nagios_host resources that
\* are in nodefacts; the query may return any hosts.
QueryHosts ==
    /\ pc = "query"
    /\ \E hs \in SUBSET (DOMAIN nodefacts) : nagios_hosts' = hs
    /\ pc' = "writing"
    /\ UNCHANGED <<runVars, program, nagios_type, nodefacts, raised, renderVars, fsVars,
                   config, nodes, members, hostgroup, hg_i, hg_written>>

\* the hosts of a list that are in a set, in the order of the list
RECURSIVE filter_hosts(_, _)
filter_hosts(hosts, keep) ==
    IF hosts = << >> THEN << >>
    ELSE (IF Head(hosts) \in keep THEN <<Head(hosts)>> ELSE << >>)
         \o filter_hosts(Tail(hosts), keep)

\* the block of one derived hostgroup
hostgroup_block(prog, cfg, k, hosts, keep) ==
    LET name == IF prog = "naginator.py" THEN cfg.fact_name \o "_" \o k[1] ELSE k[1]
        alias == IF prog = "naginator.py" THEN cfg.fact_name \o "_" \o k[2] ELSE k[2]
        ms == IF prog = "generate.py" THEN filter_hosts(hosts, keep) ELSE hosts
    IN  [define |-> "hostgroup",
         lines  |-> << <<"hostgroup_name", name>>,
                       <<"alias", alias>>,
                       <<"members", join(",", ms)>> >>,
         params |-> {},
         of     |-> name]

\* One iteration of "for hostgroup_name, hosts in hostgroup.items()".
\* CustomNagiosHostGroup.generate opens auto_hostgroup_<name>.cfg for the
\* group and never closes it; the other two write to the file opened at the
\* start.
WriteHostgroup(k) ==
    /\ pc = "writing"
    /\ k \in DOMAIN hostgroup
    /\ k \notin hg_written
    /\ LET b == hostgroup_block(program, config, k, hostgroup[k], nagios_hosts)
       IN  IF program = "external_naginator.py"
           THEN /\ files' = WriteBlock(Truncate(files, group_file(k[1])),
                                       group_file(k[1]), b)
                /\ opened' = Append(opened, group_file(k[1]))
                /\ handles' = Append(handles, group_file(k[1]))
           ELSE /\ files' = WriteBlock(files, hostgroup_file(program, config), b)
                /\ UNCHANGED <<opened, handles>>
    /\ hg_written' = hg_written \cup {k}
    /\ UNCHANGED <<runVars, program, nagios_type, nodefacts, pc, raised, renderVars,
                   config, nodes, members, hostgroup, hg_i, nagios_hosts>>

\* The loop over hostgroup.items() is over: the call returns.
HostgroupReturn ==
    /\ pc = "writing"
    /\ hg_written = DOMAIN hostgroup
    /\ pc' = "done"
    /\ UNCHANGED <<runVars, program, nagios_type, nodefacts, raised, renderVars, fsVars,
                   hgVars>>

HgNext ==
    \/ CustomConstruct
    \/ OpenHostgroupFile
    \/ SelectMembers
    \/ GroupNode
    \/ EndGrouping
    \/ QueryHosts
    \/ \E k \in DOMAIN hostgroup : WriteHostgroup(k)
    \/ HostgroupReturn

SpecHostgroup == HgInit /\ [][HgNext]_vars

-----------------------------------------------------------------------------
(* Properties of the hostgroup derivation *)

\* the derivation formats templates (the two class-based programs)
Templated == program # "naginator.py"

\* the hosts the grouping loop goes through
GroupedNodes == grouped(program, members, nodes)

\* the i-th grouped host lacks a fact that the name or the alias template
\* refers to
LacksFact(i) ==
    \/ FormatRaises(config.name, nodefacts[GroupedNodes[i].name])
    \/ FormatRaises(config.alias, nodefacts[GroupedNodes[i].name])

\* the grouping loop has been entered
GroupingEntered ==
    /\ pc \notin {"new", "select"}
    /\ program = "external_naginator.py" =>
          /\ raised # "AttributeError"
          /\ {"fact_template", "name"} \subseteq config.options

\* the file the derivation opened before it grouped anything
UpFrontFile ==
    IF program = "external_naginator.py" THEN file_name(nagios_type)
    ELSE hostgroup_file(program, config)

\* the first grouped host that lacks a fact
FirstLacking ==
    CHOOSE i \in 1..Len(GroupedNodes) :
        LacksFact(i) /\ \A j \in 1..(i - 1) : ~LacksFact(j)

\* C9: in a templated derivation in which some host being grouped lacks a
\* fact that the name or alias template refers to, the grouping loop never
\* gets past the first such host (it is not skipped and nothing is put in
\* its place), the only way the derivation ends is the KeyError raised at
\* that host, and no hostgroup block or file is written: the only file the
\* derivation has touched is the one it opened before grouping, still empty.
C9_MissingFactIsFatal ==
    (Templated /\ GroupingEntered /\ \E i \in 1..Len(GroupedNodes) : LacksFact(i)) =>
        /\ pc \in {"grouping", "raised"}
        /\ hg_i <= FirstLacking
        /\ pc = "raised" => (raised = "KeyError" /\ hg_i = FirstLacking)
        /\ \A k \in DOMAIN hostgroup :
              \A i \in 1..Len(hostgroup[k]) :
                 \E j \in 1..(FirstLacking - 1) :
                    GroupedNodes[j].name = hostgroup[k][i]
        /\ hg_written = {}
        /\ opened = <<UpFrontFile>>
        /\ files = Put(EmptyMap, UpFrontFile, << >>)

\* C9 happens: the second grouped host lacks a fact, the first one is already
\* in the index, and the KeyError has been raised.
C9_Witness ==
    /\ program = "external_naginator.py"
    /\ GroupingEntered
    /\ pc = "raised"
    /\ raised = "KeyError"
    /\ hg_i = 2
    /\ LacksFact(2)
    /\ hostgroup # EmptyMap

\* the simple derivation has returned
SimpleDone == program = "naginator.py" /\ pc = "done"

\* the hosts of the node list whose fact f has value v, in order
RECURSIVE HostsWith(_, _, _)
HostsWith(ns, f, v) ==
    IF ns = << >> THEN << >>
    ELSE (IF nodefacts[Head(ns).name][f] = v THEN <<Head(ns).name>> ELSE << >>)
         \o HostsWith(Tail(ns), f, v)

\* the values of fact f over all hosts
FactValues(f) == { nodefacts[h][f] : h \in DOMAIN nodefacts }

\* C6 as stated: after a simple derivation over hosts that all have the fact,
\* there is exactly one output file per distinct fact value, and the file for
\* value v holds the one group <factname>_<v> with the hosts of value v.
C6_OneFilePerValue ==
    (SimpleDone /\ nodefacts # EmptyMap) =>
        /\ Cardinality(DOMAIN files) = Cardinality(FactValues(config.fact_name))
        /\ \A v \in FactValues(config.fact_name) :
              \E path \in DOMAIN files :
                 /\ Len(files[path]) = 1
                 /\ files[path][1].of = config.fact_name \o "_" \o v
                 /\ files[path][1].lines[3] =
                       <<"members", join(",", HostsWith(nodes, config.fact_name, v))>>

\* C10 as stated: a derivation that has ended with zero groups has created,
\* truncated or written no file.
C10_ZeroGroupsNoFile ==
    (pc = "done" /\ hostgroup = EmptyMap) =>
        /\ opened = << >>
        /\ files = EmptyMap

\* the positions of the nodes that have, for every required pair, a resource
\* of that type and title
Satisfying ==
    { i \in 1..Len(nodes) : \A t \in config.traits : t \in nodes[i].resources }

\* the names of the hosts the derivation is to group: the satisfying nodes,
\* or every node when there is none
ExpectedMembers ==
    IF Satisfying = {} THEN { nodes[i].name : i \in 1..Len(nodes) }
    ELSE { nodes[i].name : i \in Satisfying }

\* C13: in the derivation of CustomNagiosHostGroup, once the member loop is
\* over, members holds, in node order, exactly the nodes that have a
\* resource for every required pair; the hosts that get grouped are those
\* members, or all nodes when no node satisfies the predicates, and so all
\* nodes when there is no predicate; once grouping is over the index holds
\* exactly those hosts, each once.
C13_MembershipByTraits ==
    (program = "external_naginator.py" /\ GroupingEntered) =>
        /\ Len(members) = Cardinality(Satisfying)
        /\ { members[j] : j \in 1..Len(members) } = { nodes[i] : i \in Satisfying }
        /\ \A j, l \in 1..Len(members) :
              j < l => \E a, b \in Satisfying :
                          a < b /\ nodes[a] = members[j] /\ nodes[b] = members[l]
        /\ config.traits = {} => ExpectedMembers = DOMAIN nodefacts
        /\ \A k \in DOMAIN hostgroup : \A i \in 1..Len(hostgroup[k]) :
              /\ hostgroup[k][i] \in ExpectedMembers
              /\ \A j \in 1..Len(hostgroup[k]) :
                    hostgroup[k][j] = hostgroup[k][i] => j = i
        /\ pc \in {"writing", "done"} =>
              \A h \in ExpectedMembers :
                 Cardinality({ k \in DOMAIN hostgroup :
                    \E i \in 1..Len(hostgroup[k]) : hostgroup[k][i] = h }) = 1

\* C13 happens: predicates are required, one node satisfies them and another
\* does not, and the derivation has finished with only the first in a group.
C13_Witness ==
    /\ program = "external_naginator.py"
    /\ pc = "done"
    /\ config.traits # {}
    /\ Satisfying # {}
    /\ Satisfying # 1..Len(nodes)
    /\ \E k \in DOMAIN hostgroup : hostgroup[k] = << nodes[CHOOSE i \in Satisfying : TRUE].name >>

\* the hosts of group k that the intersection with the rendered hosts keeps
KeptMembers(k) ==
    IF program = "generate.py" THEN filter_hosts(hostgroup[k], nagios_hosts)
    ELSE hostgroup[k]

\* C17 as stated: in the derivation that intersects the members with the
\* hosts rendered as host resources, a group all of whose members the
\* intersection removes gets no output: no block for its key, and no block
\* with an empty members field.
C17_EmptyGroupNoOutput ==
    program = "generate.py" =>
        \A path \in DOMAIN files : \A i \in 1..Len(files[path]) :
            /\ files[path][i].lines[3] # <<"members", "">>
            /\ \A k \in hg_written :
                  KeptMembers(k) = << >> => files[path][i].of # k[1]

\* C18 as stated: at most one output file handle is open at any point, no
\* path has two handles open on it, and when the derivation has returned
\* every handle it opened is closed.
C18_HandlesClosed ==
    /\ Len(handles) <= 1
    /\ \A i, j \in 1..Len(handles) : handles[i] = handles[j] => i = j
    /\ pc = "done" => handles = << >>

\* the files that hold a hostgroup block
GroupFiles == { path \in DOMAIN files : files[path] # << >> }

\* C19 as stated: when a templated derivation has returned, the number of
\* files written equals the number of derived groups, and every group's
\* block is in a file of its own that no other group's write replaced.
C19_DistinctKeysDistinctFiles ==
    (Templated /\ pc = "done") =>
        /\ Cardinality(GroupFiles) = Cardinality(DOMAIN hostgroup)
        /\ \A k \in DOMAIN hostgroup :
              \E path \in GroupFiles :
                 files[path] = <<hostgroup_block(program, config, k,
                                                 hostgroup[k], nagios_hosts)>>

\* the hosts of the members field of the i-th block of a file, as written
WrittenMembers(path, i) == split(files[path][i].lines[3][2], ",")

\* the places host h has in the member lists written to the files: file,
\* block, position in the members field
WrittenPlaces(h) ==
    UNION { UNION { { <<path, i, j>> :
                        j \in { x \in 1..Len(WrittenMembers(path, i)) :
                                   WrittenMembers(path, i)[x] = h } } :
                    i \in 1..Len(files[path]) } :
            path \in DOMAIN files }

-----------------------------------------------------------------------------
(* A whole run: the driver of each program                                 *)

\* The order the types are rendered in.  external_naginator.py goes through
\* NagiosType.__subclasses__(), the classes in the order they are defined,
\* without the Custom one; generate.py through TYPES and then NagiosHost;
\* naginator.py through its TYPES.
registry(prog) ==
    IF prog = "external_naginator.py"
    THEN <<"host", "servicegroup", "service", "hostgroup", "hostescalation",
           "hostdependency", "hostextinfo", "serviceescalation",
           "servicedependency", "serviceextinfo", "timeperiod", "command",
           "contact", "contactgroup">>
    ELSE IF prog = "generate.py"
    THEN <<"hostgroup", "hostescalation", "hostdependency", "hostextinfo",
           "service", "servicegroup", "serviceescalation",
           "servicedependency", "serviceextinfo", "contact", "contactgroup",
           "timeperiod", "command", "host">>
    ELSE <<"host", "hostgroup", "hostescalation", "hostdependency",
           "hostextinfo", "service", "servicegroup", "serviceescalation",
           "servicedependency", "serviceextinfo", "contact", "contactgroup",
           "timeperiod", "command">>

\* the one resource a populated type has: a service of web01 for the service
\* type, a resource without parameters for any other
RunResource(t) ==
    IF t = "service"
    THEN Resource("web01", {}, ("host_name" :> Scalar("web01")) @@
                               ("service_description" :> Scalar("http")))
    ELSE Resource("web01", {}, EmptyMap)

\* what the CMDB may hold in a run: a resource for a few of the types
Cmdbs ==
    { [t \in TYPES |-> IF t \in S THEN <<RunResource(t)>> ELSE << >>] :
        S \in { X \in SUBSET TYPES : Cardinality(X) <= MaxPopulated } }

\* the definition generate_hostgroup(nodefacts, f) of naginator.py is run for
SimpleConfig(f) ==
    [section |-> "", fact_name |-> f, name |-> <<Fact(f)>>,
     alias |-> <<Fact(f)>>, traits |-> {}, options |-> {}]

\* the facts naginator.py derives hostgroups from
SimpleFacts ==
    <<"operatingsystem", "customfact_pyhsical_location",
      "customfact_network_location", "customfact_role">>

\* The hostgroup definitions of a run: the four calls at the end of
\* generate_all in naginator.py; in the other two programs the hostgroup_
\* sections of the configuration file, here none or the one on
\* {operatingsystem}.
RunSections(prog) ==
    IF prog = "naginator.py"
    THEN { [i \in 1..Len(SimpleFacts) |-> SimpleConfig(SimpleFacts[i])] }
    ELSE { << >> } \cup
         { <<c>> : c \in { x \in Configs(prog) :
                             /\ x.name = <<Fact("operatingsystem")>>
                             /\ x.alias = <<Fact("operatingsystem")>>
                             /\ x.traits = {}
                             /\ x.options \in {{"fact_template"},
                                               {"fact_template", "name"}} } }

\* the nodes the fact store may hold in a run: none, web01 with its
\* operating system, web01 with every fact naginator.py groups by
RunNodeChoices ==
    { << >>,
      << [facts |-> [f \in {"operatingsystem"} |-> "Debian"], resources |-> {}] >>,
      << [facts |-> [f \in {SimpleFacts[i] : i \in 1..Len(SimpleFacts)} |-> "x"],
          resources |-> {}] >> }

RunInit ==
    /\ program \in Programs
    /\ cmdb \in Cmdbs
    /\ sections \in RunSections(program)
    /\ phase = "fetch"
    /\ pc = "start"
    /\ type_i = 0
    /\ sec_i = 0
    /\ fetches = 0
    /\ failed_query = ""
    /\ nagios_type = ""
    /\ nodefacts = EmptyMap
    /\ nodes = << >>
    /\ config = NoConfig
    /\ raised = "none"
    /\ returned = << >>
    /\ scanned = << >>
    /\ unique_list = {}
    /\ servicegroups = EmptyMap
    /\ sg_written = {}
    /\ files = EmptyMap
    /\ opened = << >>
    /\ handles = << >>
    /\ members = << >>
    /\ hostgroup = EmptyMap
    /\ hg_i = 1
    /\ hg_written = {}
    /\ nagios_hosts = {}

\* NagiosConfig.__init__ (get_nodefacts of naginator.py's generate_all): the
\* one call of get_nodefacts; then generate_all starts on the first type.
Fetch ==
    /\ phase = "fetch"
    /\ pc = "start"
    /\ \E kinds \in RunNodeChoices :
          /\ nodes' = [i \in 1..Len(kinds) |-> [name |-> NodeNameList[i],
                                                resources |-> kinds[i].resources]]
          /\ nodefacts' = [h \in {NodeNameList[i] : i \in 1..Len(kinds)} |->
                             kinds[CHOOSE i \in 1..Len(kinds) : NodeNameList[i] = h].facts]
    /\ fetches' = fetches + 1
    /\ phase' = "render"
    /\ type_i' = 1
    /\ nagios_type' = registry(program)[1]
    /\ pc' = "new"
    /\ UNCHANGED <<program, raised, renderVars, fsVars, config, members,
                   hostgroup, hg_i, hg_written, nagios_hosts, cmdb, sections,
                   sec_i, failed_query>>

\* a driver that catches what a render raises and goes on to the next type
MutSwallow(exc) == [pc |-> "done", raised |-> "none"]

\* Nothing between db.resources and the top of the program catches an
\* exception: the call is left at once and so is the run.
propagate(exc) == [pc |-> "raised", raised |-> exc]

\* The resources query of the type being rendered (or the Nagios_service
\* query of generate_auto_servicegroups) fails, when it is issued or while
\* its results are read.
QueryFails ==
    /\ phase = "render"
    /\ pc \in {"open", "scan"}
    /\ pc' = propagate("QueryError").pc
    /\ raised' = propagate("QueryError").raised
    /\ failed_query' = IF pc = "scan" THEN "service" ELSE nagios_type
    /\ UNCHANGED <<program, nagios_type, nodefacts, renderVars, hgVars, fsVars,
                   cmdb, sections, type_i, sec_i, phase, fetches>>

\* generate_all: the call for one type has returned, the next type starts.
NextType ==
    /\ phase = "render"
    /\ pc = "done"
    /\ type_i < Len(registry(program))
    /\ type_i' = type_i + 1
    /\ nagios_type' = registry(program)[type_i + 1]
    /\ pc' = "new"
    /\ returned' = << >>
    /\ scanned' = << >>
    /\ unique_list' = {}
    /\ servicegroups' = EmptyMap
    /\ sg_written' = {}
    /\ UNCHANGED <<program, nodefacts, raised, hgVars, fsVars, cmdb, sections,
                   sec_i, phase, fetches, failed_query>>

\* generate_all has returned, or the derivation of one definition has: the
\* next definition starts, or the run ends.
NextSection ==
    /\ pc = "done"
    /\ \/ phase = "render" /\ type_i = Len(registry(program))
       \/ phase = "hostgroup"
    /\ IF sec_i < Len(sections)
       THEN /\ sec_i' = sec_i + 1
            /\ config' = sections[sec_i + 1]
            /\ phase' = "hostgroup"
            /\ pc' = "new"
            /\ nagios_type' = IF program = "external_naginator.py"
                              THEN sections[sec_i + 1].section ELSE "hostgroup"
       ELSE /\ phase' = "end"
            /\ pc' = "end"
            /\ UNCHANGED <<sec_i, config, nagios_type>>
    /\ members' = << >>
    /\ hostgroup' = EmptyMap
    /\ hg_i' = 1
    /\ hg_written' = {}
    /\ nagios_hosts' = {}
    /\ UNCHANGED <<program, nodefacts, raised, renderVars, fsVars, nodes, cmdb,
                   sections, type_i, fetches, failed_query>>

\* the names of the Nagios_host resources that are known nodes
RenderedHosts ==
    { cmdb["host"][i].name : i \in 1..Len(cmdb["host"]) } \cap DOMAIN nodefacts

\* The steps of a run: the driver's own, and those of the render calls and of
\* the derivations, each query yielding what the CMDB holds.
RunNext ==
    \/ Fetch
    \/ (phase = "render" /\ Construct)
    \/ (/\ phase = "render"
        /\ Len(returned) < Len(cmdb[nagios_type])
        /\ Render(cmdb[nagios_type][Len(returned) + 1]))
    \/ (/\ phase = "render"
        /\ Len(returned) = Len(cmdb[nagios_type])
        /\ Close)
    \/ (/\ phase = "render"
        /\ Len(scanned) < Len(cmdb["service"])
        /\ Scan(cmdb["service"][Len(scanned) + 1]))
    \/ (/\ phase = "render"
        /\ Len(scanned) = Len(cmdb["service"])
        /\ EndScan)
    \/ (phase = "render" /\ \E k \in DOMAIN servicegroups : WriteServiceGroup(k))
    \/ (phase = "render" /\ Return)
    \/ QueryFails
    \/ NextType
    \/ NextSection
    \/ (phase = "hostgroup" /\ CustomConstruct)
    \/ (phase = "hostgroup" /\ OpenHostgroupFile)
    \/ (phase = "hostgroup" /\ SelectMembers)
    \/ (phase = "hostgroup" /\ GroupNode)
    \/ (phase = "hostgroup" /\ EndGrouping)
    \/ (phase = "hostgroup" /\ QueryHosts /\ nagios_hosts' = RenderedHosts)
    \/ (phase = "hostgroup" /\ \E k \in DOMAIN hostgroup : WriteHostgroup(k))
    \/ (phase = "hostgroup" /\ HostgroupReturn)

SpecRun == RunInit /\ [][RunNext]_vars

-----------------------------------------------------------------------------
(* Properties of a whole run *)

\* the files the service-group deriver writes
DerivedServiceGroupFiles == { servicegroup_file(k) : k \in ServiceKeys }

\* the files the hostgroup derivations open
HostgroupFiles ==
    { hostgroup_file(program, sections[i]) : i \in 1..Len(sections) } \cup
    { file_name(sections[i].section) : i \in 1..Len(sections) } \cup
    { group_file(k[1]) : k \in DOMAIN hostgroup }

\* the file of every registered type has been opened before the i-th open
AllTypesOpenedBefore(i) ==
    \A t \in TYPES : \E j \in 1..(i - 1) : opened[j] = file_name(t)

\* C14 as stated: no file is opened before NodeFacts are fetched; the
\* service-group deriver queries and writes only after every registered
\* type, service included, has been rendered; the hostgroup derivations run
\* only after the service-group deriver has written its last file.
C14_PhaseOrder ==
    /\ opened # << >> => fetches >= 1
    /\ pc = "scan" => type_i = Len(registry(program))
    /\ \A i \in 1..Len(opened) :
          opened[i] \in DerivedServiceGroupFiles => AllTypesOpenedBefore(i)
    /\ \A i, j \in 1..Len(opened) :
          (opened[i] \in HostgroupFiles /\ opened[j] \in DerivedServiceGroupFiles)
             => j < i

\* C15 as stated: once the driver has fetched NodeFacts they are fetched
\* exactly once in the run, and every renderer and deriver constructed
\* afterwards completes its construction with them: none raises in its
\* constructor for want of facts.
C15_FactsBuiltOnce ==
    /\ phase # "fetch" => fetches = 1
    /\ raised # "AttributeError"

\* the blocks a completed render of type t leaves in the type's file
RenderedBlocks(t) ==
    LET fo == FirstOccurrences(cmdb[t])
    IN  [i \in 1..Len(fo) |-> Block(program, t, nodefacts, fo[i])]

\* what holds in a run whose resources query has failed
AfterQueryFailure ==
    /\ phase = "render"
    /\ pc = "raised"
    /\ raised = "QueryError"
    /\ sec_i = 0
    /\ DOMAIN files \cap HostgroupFiles = {}
    /\ \A j \in 1..Len(registry(program)) :
          LET path == file_name(registry(program)[j])
          IN  /\ j < type_i =>
                    /\ path \in DOMAIN files
                    /\ files[path] = RenderedBlocks(registry(program)[j])
                    /\ TimesOpened(path) = 1
              /\ j > type_i =>
                    /\ path \notin DOMAIN files
                    /\ TimesOpened(path) = 0

\* C16: when a resources query fails while a type is rendered, the run is
\* left with the query's exception and takes no further step: the query is
\* not issued again and no later type or derivation is constructed, queried
\* or rendered; the file of every type rendered earlier holds the blocks
\* written for it in this run, and the file of no later type, and no
\* hostgroup file, has been opened.
C16_QueryFailureAborts ==
    /\ [](failed_query # "" => AfterQueryFailure)
    /\ [][failed_query # "" => UNCHANGED vars]_vars

\* C16 happens: the query of a type fails after an earlier type has been
\* rendered with a block.
C16_Witness ==
    /\ failed_query # ""
    /\ type_i >= 2
    /\ \E j \in 1..(type_i - 1) :
          /\ file_name(registry(program)[j]) \in DOMAIN files
          /\ files[file_name(registry(program)[j])] # << >>

=============================================================================
